---- MODULE Spec2Model ----
(***************************************************************************)
(* A model of CyberSecurityTool                                            *)
(* (src/Accurate-Cyber-Defense-Information-Gathering-Tool.py): the         *)
(* service classifier, the port scanner, the differ, and the monitor with  *)
(* its command thread and its background monitoring_loop threads.          *)
(*                                                                         *)
(* Python dicts keep insertion order, and the code iterates over them, so  *)
(* a dict is modelled as a sequence of entries [k |-> key, v |-> value]    *)
(* with distinct keys.  Strings the code inspects (banners) are sequences  *)
(* of one-character strings; strings it only builds (messages, log lines)  *)
(* are tuples of their parts, log lines without their time of day.         *)
(* datetime.now() is the logical clock `now`, which advances once per      *)
(* completed scan; the entries of one scan carry the same timestamp.       *)
(*                                                                         *)
(* The command thread is the interactive loop of main(): one command at a  *)
(* time.  A command that blocks on the network while other threads run is  *)
(* split where it blocks (start_monitoring at its initial scan, stop at    *)
(* its join).  The monitoring_loop threads share self.monitored_ips,       *)
(* self.scanning_active and self.history with it, without a lock.          *)
(* The commands that only read (status, history, ping, scan), those that   *)
(* configure Telegram, and exit are not modelled.                          *)
(***************************************************************************)
EXTENDS Integers, Sequences, FiniteSets, TLC

\* ------------------------------------------------------------------ bounds

\* scans (initial scans and cycle scans together) one behaviour may complete
MaxClock == 3
\* monitoring_loop threads one behaviour may create (start() calls that launch)
MaxThreads == 2
\* log lines the modelled history keeps (the code keeps the last 1000)
HistoryMax == 1
\* timestamps 0..MaxTime carried by the snapshots the differ is applied to
MaxTime == 1
\* the largest config["max_workers"] of a scan_ports call on its own
MaxWorkers == 2

\* ------------------------------------------------------------ Python dict

Has(d, key) == \E i \in 1..Len(d) : d[i].k = key

Idx(d, key) == CHOOSE i \in 1..Len(d) : d[i].k = key

Get(d, key) == d[Idx(d, key)].v

\* d[key] = val: an existing key keeps its place, a new one goes last
Put(d, key, val) ==
    IF Has(d, key) THEN [d EXCEPT ![Idx(d, key)].v = val]
    ELSE Append(d, [k |-> key, v |-> val])

\* del d[key]
Del(d, key) == SelectSeq(d, LAMBDA e : e.k # key)

\* list(d.keys())
Keys(d) == [i \in 1..Len(d) |-> d[i].k]

KeySet(d) == {d[i].k : i \in 1..Len(d)}

\* ------------------------------------------------------------- classifier

COMMON_SERVICES ==
    <<[k |-> 7, v |-> "echo"], [k |-> 20, v |-> "ftp-data"], [k |-> 21, v |-> "ftp"],
      [k |-> 22, v |-> "ssh"], [k |-> 23, v |-> "telnet"], [k |-> 25, v |-> "smtp"],
      [k |-> 43, v |-> "whois"], [k |-> 53, v |-> "dns"], [k |-> 67, v |-> "dhcp"],
      [k |-> 68, v |-> "dhcp"], [k |-> 69, v |-> "tftp"], [k |-> 80, v |-> "http"],
      [k |-> 110, v |-> "pop3"], [k |-> 115, v |-> "sftp"], [k |-> 119, v |-> "nntp"],
      [k |-> 123, v |-> "ntp"], [k |-> 137, v |-> "netbios-ns"],
      [k |-> 138, v |-> "netbios-dgm"], [k |-> 139, v |-> "netbios-ssn"],
      [k |-> 143, v |-> "imap"], [k |-> 161, v |-> "snmp"], [k |-> 179, v |-> "bgp"],
      [k |-> 194, v |-> "irc"], [k |-> 389, v |-> "ldap"], [k |-> 443, v |-> "https"],
      [k |-> 445, v |-> "smb"], [k |-> 514, v |-> "syslog"], [k |-> 515, v |-> "printer"],
      [k |-> 587, v |-> "smtps"], [k |-> 631, v |-> "ipp"], [k |-> 636, v |-> "ldaps"],
      [k |-> 993, v |-> "imaps"], [k |-> 995, v |-> "pop3s"], [k |-> 1080, v |-> "socks"],
      [k |-> 1194, v |-> "openvpn"], [k |-> 1433, v |-> "mssql"], [k |-> 1723, v |-> "pptp"],
      [k |-> 1900, v |-> "upnp"], [k |-> 2082, v |-> "cpanel"],
      [k |-> 2083, v |-> "cpanel-ssl"], [k |-> 2086, v |-> "whm"],
      [k |-> 2087, v |-> "whm-ssl"], [k |-> 2095, v |-> "webmail"],
      [k |-> 2096, v |-> "webmail-ssl"], [k |-> 2181, v |-> "zookeeper"],
      [k |-> 2375, v |-> "docker"], [k |-> 2376, v |-> "docker-ssl"],
      [k |-> 2483, v |-> "oracle"], [k |-> 2484, v |-> "oracle-ssl"],
      [k |-> 3000, v |-> "nodejs"], [k |-> 3306, v |-> "mysql"], [k |-> 3389, v |-> "rdp"],
      [k |-> 5432, v |-> "postgresql"], [k |-> 5500, v |-> "vnc"],
      [k |-> 5601, v |-> "kibana"], [k |-> 5672, v |-> "amqp"], [k |-> 5900, v |-> "vnc"],
      [k |-> 5938, v |-> "teamviewer"], [k |-> 6379, v |-> "redis"],
      [k |-> 6443, v |-> "kubernetes"], [k |-> 6666, v |-> "irc"], [k |-> 6667, v |-> "irc"],
      [k |-> 8000, v |-> "http-alt"], [k |-> 8008, v |-> "http-alt"],
      [k |-> 8080, v |-> "http-proxy"], [k |-> 8081, v |-> "http-alt"],
      [k |-> 8443, v |-> "https-alt"], [k |-> 8888, v |-> "http-alt"],
      [k |-> 9000, v |-> "php-fpm"], [k |-> 9042, v |-> "cassandra"],
      [k |-> 9092, v |-> "kafka"], [k |-> 9200, v |-> "elasticsearch"],
      [k |-> 9300, v |-> "elasticsearch"], [k |-> 11211, v |-> "memcached"],
      [k |-> 27017, v |-> "mongodb"], [k |-> 27018, v |-> "mongodb"],
      [k |-> 27019, v |-> "mongodb"], [k |-> 28017, v |-> "mongodb"],
      [k |-> 50000, v |-> "db2"]>>

\* str.lower() on one character, over the letters the modelled banners use
LowerCh(c) ==
    CASE c = "S" -> "s" [] c = "H" -> "h" [] c = "T" -> "t" [] c = "P" -> "p"
      [] c = "F" -> "f" [] c = "M" -> "m" [] c = "Y" -> "y" [] c = "Q" -> "q"
      [] c = "L" -> "l" [] c = "O" -> "o" [] c = "K" -> "k"
      [] OTHER -> c

Lower(s) == [i \in 1..Len(s) |-> LowerCh(s[i])]

\* needle in hay
Contains(hay, needle) ==
    \E i \in 0..(Len(hay) - Len(needle)) :
        \A j \in 1..Len(needle) : hay[i + j] = needle[j]

KwSsh == <<"s", "s", "h">>
KwHttp == <<"h", "t", "t", "p">>
KwSmtp == <<"s", "m", "t", "p">>
KwFtp == <<"f", "t", "p">>
KwMysql == <<"m", "y", "s", "q", "l">>

\* get_service_name whose http rule never looks at the port
get_service_name_http_only(port, banner) ==
    LET service == IF Has(COMMON_SERVICES, port) THEN Get(COMMON_SERVICES, port)
                   ELSE "unknown"
        banner_lower == Lower(banner)
    IN  IF banner = <<>> THEN service
        ELSE IF Contains(banner_lower, KwSsh) THEN "ssh"
        ELSE IF Contains(banner_lower, KwHttp) THEN "http"
        ELSE IF Contains(banner_lower, KwSmtp) THEN "smtp"
        ELSE IF Contains(banner_lower, KwFtp) THEN "ftp"
        ELSE IF Contains(banner_lower, KwMysql) THEN "mysql"
        ELSE service

\* get_service_name that matches the banner as it came, without banner.lower()
get_service_name_cased(port, banner) ==
    LET service == IF Has(COMMON_SERVICES, port) THEN Get(COMMON_SERVICES, port)
                   ELSE "unknown"
    IN  IF banner = <<>> THEN service
        ELSE IF Contains(banner, KwSsh) THEN "ssh"
        ELSE IF Contains(banner, KwHttp)
             THEN (IF port # 443 THEN "http" ELSE "https")
        ELSE IF Contains(banner, KwSmtp) THEN "smtp"
        ELSE IF Contains(banner, KwFtp) THEN "ftp"
        ELSE IF Contains(banner, KwMysql) THEN "mysql"
        ELSE service

get_service_name(port, banner) ==
    LET service == IF Has(COMMON_SERVICES, port) THEN Get(COMMON_SERVICES, port)
                   ELSE "unknown"
        banner_lower == Lower(banner)
    IN  IF banner = <<>> THEN service
        ELSE IF Contains(banner_lower, KwSsh) THEN "ssh"
        ELSE IF Contains(banner_lower, KwHttp)
             THEN (IF port # 443 THEN "http" ELSE "https")
        ELSE IF Contains(banner_lower, KwSmtp) THEN "smtp"
        ELSE IF Contains(banner_lower, KwFtp) THEN "ftp"
        ELSE IF Contains(banner_lower, KwMysql) THEN "mysql"
        ELSE service

\* ----------------------------------------------------------------- differ

OpenedEvent(e, ip, now) ==
    [type |-> "port_opened", port |-> e.k, service |-> e.v.service,
     timestamp |-> now,
     message |-> <<"NEW PORT OPENED on", ip, e.k, e.v.service>>]

ClosedEvent(e, ip, now) ==
    [type |-> "port_closed", port |-> e.k, service |-> e.v.service,
     timestamp |-> now,
     message |-> <<"PORT CLOSED on", ip, e.k, e.v.service>>]

ServiceChangeEvent(e, old_info, ip, now) ==
    [type |-> "service_change", port |-> e.k,
     old_service |-> old_info.service, new_service |-> e.v.service,
     timestamp |-> now,
     message |-> <<"SERVICE CHANGE on", ip, e.k, old_info.service, e.v.service>>]

\* detect_changes without the test `port not in old_scan`
detect_changes_every_port(old_scan, new_scan, ip, now) ==
    LET closed == SelectSeq(old_scan, LAMBDA e : ~Has(new_scan, e.k))
        changed == SelectSeq(new_scan, LAMBDA e :
                       /\ Has(old_scan, e.k)
                       /\ e.v.service # Get(old_scan, e.k).service)
    IN  [i \in 1..Len(new_scan) |-> OpenedEvent(new_scan[i], ip, now)]
        \o [i \in 1..Len(closed) |-> ClosedEvent(closed[i], ip, now)]
        \o [i \in 1..Len(changed) |->
               ServiceChangeEvent(changed[i], Get(old_scan, changed[i].k), ip, now)]

\* detect_changes whose first loop appends the event to changes twice
detect_changes_twice(old_scan, new_scan, ip, now) ==
    LET opened == SelectSeq(new_scan, LAMBDA e : ~Has(old_scan, e.k))
        closed == SelectSeq(old_scan, LAMBDA e : ~Has(new_scan, e.k))
        changed == SelectSeq(new_scan, LAMBDA e :
                       /\ Has(old_scan, e.k)
                       /\ e.v.service # Get(old_scan, e.k).service)
    IN  [i \in 1..(2 * Len(opened)) |-> OpenedEvent(opened[(i + 1) \div 2], ip, now)]
        \o [i \in 1..Len(closed) |-> ClosedEvent(closed[i], ip, now)]
        \o [i \in 1..Len(changed) |->
               ServiceChangeEvent(changed[i], Get(old_scan, changed[i].k), ip, now)]

\* detect_changes whose second loop tests `port in new_scan`
detect_changes_closed_kept(old_scan, new_scan, ip, now) ==
    LET opened == SelectSeq(new_scan, LAMBDA e : ~Has(old_scan, e.k))
        closed == SelectSeq(old_scan, LAMBDA e : Has(new_scan, e.k))
        changed == SelectSeq(new_scan, LAMBDA e :
                       /\ Has(old_scan, e.k)
                       /\ e.v.service # Get(old_scan, e.k).service)
    IN  [i \in 1..Len(opened) |-> OpenedEvent(opened[i], ip, now)]
        \o [i \in 1..Len(closed) |-> ClosedEvent(closed[i], ip, now)]
        \o [i \in 1..Len(changed) |->
               ServiceChangeEvent(changed[i], Get(old_scan, changed[i].k), ip, now)]

\* detect_changes whose third loop takes old_service from new_scan
detect_changes_new_label(old_scan, new_scan, ip, now) ==
    LET opened == SelectSeq(new_scan, LAMBDA e : ~Has(old_scan, e.k))
        closed == SelectSeq(old_scan, LAMBDA e : ~Has(new_scan, e.k))
        changed == SelectSeq(new_scan, LAMBDA e :
                       /\ Has(old_scan, e.k)
                       /\ e.v.service # Get(old_scan, e.k).service)
    IN  [i \in 1..Len(opened) |-> OpenedEvent(opened[i], ip, now)]
        \o [i \in 1..Len(closed) |-> ClosedEvent(closed[i], ip, now)]
        \o [i \in 1..Len(changed) |->
               ServiceChangeEvent(changed[i], Get(new_scan, changed[i].k), ip, now)]

\* detect_changes whose third loop compares the whole entries, banner and
\* timestamp included, instead of their 'service'
detect_changes_whole_entry(old_scan, new_scan, ip, now) ==
    LET opened == SelectSeq(new_scan, LAMBDA e : ~Has(old_scan, e.k))
        closed == SelectSeq(old_scan, LAMBDA e : ~Has(new_scan, e.k))
        changed == SelectSeq(new_scan, LAMBDA e :
                       /\ Has(old_scan, e.k)
                       /\ e.v # Get(old_scan, e.k))
    IN  [i \in 1..Len(opened) |-> OpenedEvent(opened[i], ip, now)]
        \o [i \in 1..Len(closed) |-> ClosedEvent(closed[i], ip, now)]
        \o [i \in 1..Len(changed) |->
               ServiceChangeEvent(changed[i], Get(old_scan, changed[i].k), ip, now)]

\* detect_changes whose third loop reads old_scan.get(port, {}) instead of
\* testing `port in old_scan`
detect_changes_get_default(old_scan, new_scan, ip, now) ==
    LET opened == SelectSeq(new_scan, LAMBDA e : ~Has(old_scan, e.k))
        closed == SelectSeq(old_scan, LAMBDA e : ~Has(new_scan, e.k))
        old_info(k) == IF Has(old_scan, k) THEN Get(old_scan, k)
                       ELSE [service |-> "unknown"]
        changed == SelectSeq(new_scan, LAMBDA e : e.v.service # old_info(e.k).service)
    IN  [i \in 1..Len(opened) |-> OpenedEvent(opened[i], ip, now)]
        \o [i \in 1..Len(closed) |-> ClosedEvent(closed[i], ip, now)]
        \o [i \in 1..Len(changed) |->
               ServiceChangeEvent(changed[i], old_info(changed[i].k), ip, now)]

detect_changes(old_scan, new_scan, ip, now) ==
    LET opened == SelectSeq(new_scan, LAMBDA e : ~Has(old_scan, e.k))
        closed == SelectSeq(old_scan, LAMBDA e : ~Has(new_scan, e.k))
        changed == SelectSeq(new_scan, LAMBDA e :
                       /\ Has(old_scan, e.k)
                       /\ e.v.service # Get(old_scan, e.k).service)
    IN  [i \in 1..Len(opened) |-> OpenedEvent(opened[i], ip, now)]
        \o [i \in 1..Len(closed) |-> ClosedEvent(closed[i], ip, now)]
        \o [i \in 1..Len(changed) |->
               ServiceChangeEvent(changed[i], Get(old_scan, changed[i].k), ip, now)]

\* ---------------------------------------------------------------- scanner

\* the ports the model probes, out of 1..65535
PortUniverse == {22}

\* the banners a modelled service may answer with
MonBanners == {<<>>, <<"H", "T", "T", "P", "/", "1">>}

Range(lo, hi) == [i \in 1..(hi - lo) |-> lo + i - 1]

\* ports is None: list(COMMON_SERVICES.keys()) + list(range(1, 1001)), here
\* restricted to the ports of PortUniverse
DefaultPortsIn(universe) ==
    SelectSeq(Keys(COMMON_SERVICES) \o Range(1, 1001), LAMBDA p : p \in universe)

DefaultPorts == DefaultPortsIn(PortUniverse)

\* what the network does to one probe: connect_ex's result, and what recv gives
NetOutcomes ==
    {[connect |-> "refused", recv |-> <<>>], [connect |-> "raises", recv |-> <<>>]}
    \cup {[connect |-> "ok", recv |-> b] : b \in MonBanners}

\* scan_port's return value (is_open, banner) for one outcome of the network
scan_port(net) ==
    IF net.connect = "ok" THEN [is_open |-> TRUE, banner |-> net.recv]
    ELSE [is_open |-> FALSE, banner |-> <<>>]

Perms(n) == {f \in [1..n -> 1..n] : \A i, j \in 1..n : f[i] = f[j] => i = j}

RECURSIVE Collect(_, _, _, _, _)
\* the as_completed loop: futures (indices into ports) taken in completion order
Collect(ports, order, net, i, open_ports) ==
    IF i > Len(order) THEN open_ports
    ELSE LET port == ports[order[i]]
             r == scan_port(net[order[i]])
         IN  Collect(ports, order, net, i + 1,
                 IF r.is_open
                 THEN Put(open_ports, port,
                          [service |-> get_service_name(port, r.banner),
                           banner |-> r.banner, timestamp |-> 0])
                 ELSE open_ports)

\* scan_ports(ip, ports) for one completion order and one outcome per probe
scan_ports(ports, order, net) == Collect(ports, order, net, 1, <<>>)

\* every result scan_ports(ip) can return, timestamps aside
ScanShapes ==
    {scan_ports(DefaultPorts, order, net) :
        order \in Perms(Len(DefaultPorts)),
        net \in [1..Len(DefaultPorts) -> NetOutcomes]}

\* the entries' "timestamp": datetime.now().isoformat()
Stamp(open_ports, t) ==
    [i \in 1..Len(open_ports) |->
        [k |-> open_ports[i].k, v |-> [open_ports[i].v EXCEPT !.timestamp = t]]]

\* ---------------------------------------------------------------- monitor

\* the hosts the commands name
IPs == {"10.0.0.1", "10.0.0.2"}

Threads == 1..MaxThreads

VARIABLES
    monitored_ips,    \* self.monitored_ips: ip -> {last_scan, changes, start_time}
    scanning_active,  \* self.scanning_active
    scan_thread,      \* self.scan_thread: a thread of Threads, or 0 for None
    history,          \* self.history, the last HistoryMax lines
    now,              \* the clock datetime.now() reads
    main,             \* the command thread: where it is, and its local ip
    loops,            \* the monitoring_loop threads: where each is, and its locals
    old_scan, new_scan, diff_changes, diffed,  \* a detect_changes call on its own
    svc_port, svc_banner, svc_name, svc_done,  \* a get_service_name call on its own
    sc_arg,           \* a scan_ports call on its own: its argument ports
    sc_workers,       \* config["max_workers"]
    sc_pc,            \* where the call is: "call", "pool", "returned"
    sc_ports,         \* the local ports
    sc_futures,       \* future_to_port's futures, in the order of ports
    sc_open,          \* the local open_ports
    nt_cfg,           \* the notifications on their own: self.config["telegram"]
    nt_pc,            \* where the thread is
    nt_rec,           \* self.monitored_ips[ip]
    nt_scan,          \* the local current_scan
    nt_changes,       \* the local changes
    nt_i,             \* the place of `for change in changes`
    nt_log,           \* self.history
    nt_posts          \* the requests.post calls made, each with how it ended

vars == <<monitored_ips, scanning_active, scan_thread, history, now,
          main, loops, old_scan, new_scan, diff_changes, diffed,
          svc_port, svc_banner, svc_name, svc_done,
          sc_arg, sc_workers, sc_pc, sc_ports, sc_futures, sc_open,
          nt_cfg, nt_pc, nt_rec, nt_scan, nt_changes, nt_i, nt_log, nt_posts>>

monitorVars == <<monitored_ips, scanning_active, scan_thread, history, now,
                 main, loops>>

differVars == <<old_scan, new_scan, diff_changes, diffed>>

classifierVars == <<svc_port, svc_banner, svc_name, svc_done>>

\* the variables of the calls made on their own, which the monitor never touches
scannerVars == <<sc_arg, sc_workers, sc_pc, sc_ports, sc_futures, sc_open>>

notifierVars == <<nt_cfg, nt_pc, nt_rec, nt_scan, nt_changes, nt_i, nt_log, nt_posts>>

callVars == <<differVars, classifierVars, scannerVars, notifierVars>>

\* self.log(message, level): deque(maxlen=...).append
Log(h, line) ==
    LET s == Append(h, line)
    IN  IF Len(s) > HistoryMax THEN SubSeq(s, Len(s) - HistoryMax + 1, Len(s)) ELSE s

\* if config["telegram"]["enabled"] and ...: self.send_telegram_message(...)
\* the histories the call can leave: h when telegram is not configured or the
\* post returns, and one more line when the post raises
Notify(h) == {h, Log(h, <<"ERROR", "Telegram API error">>)}

\* self.save_config(): the handlers modelled here never change self.config, so
\* the file is rewritten with what it held; a failed write logs one line
SaveConfig(h) == {h, Log(h, <<"INFO", "Error saving config">>)}

\* save_config(), then the guarded send_telegram_message
SaveAndNotify(h) == UNION {Notify(h2) : h2 \in SaveConfig(h)}

RECURSIVE NotifyChanges(_, _, _)
\* for change in changes: self.log(change["message"]); send_telegram_message(...)
NotifyChanges(h, chs, i) ==
    IF i > Len(chs) THEN {h}
    ELSE UNION {NotifyChanges(h2, chs, i + 1) :
                   h2 \in Notify(Log(h, <<"INFO">> \o chs[i].message))}

MainIdle == [pc |-> "idle", ip |-> "-"]

\* a thread that is not created yet, or is between two targets
NoLocals(where, todo) ==
    [pc |-> where, ips |-> todo, ip |-> "-", current_scan |-> <<>>, changes |-> <<>>]

NoDiff ==
    /\ old_scan = <<>>
    /\ new_scan = <<>>
    /\ diff_changes = <<>>
    /\ diffed = FALSE

NoService ==
    /\ svc_port = 0
    /\ svc_banner = <<>>
    /\ svc_name = ""
    /\ svc_done = FALSE

\* ports=None as an argument
PortsNone == [given |-> FALSE, ports |-> <<>>]

NoScan ==
    /\ sc_arg = PortsNone
    /\ sc_workers = 1
    /\ sc_pc = "call"
    /\ sc_ports = <<>>
    /\ sc_futures = <<>>
    /\ sc_open = <<>>

NoNotify ==
    /\ nt_cfg = [enabled |-> FALSE, token |-> FALSE, chat_id |-> FALSE]
    /\ nt_pc = "none"
    /\ nt_rec = [last_scan |-> <<>>, changes |-> <<>>, start_time |-> 0]
    /\ nt_scan = <<>>
    /\ nt_changes = <<>>
    /\ nt_i = 1
    /\ nt_log = <<>>
    /\ nt_posts = <<>>

Init ==
    /\ monitored_ips = <<>>
    /\ scanning_active = FALSE
    /\ scan_thread = 0
    /\ history = <<>>
    /\ now = 0
    /\ main = MainIdle
    /\ loops = [t \in Threads |-> NoLocals("none", <<>>)]
    /\ NoDiff
    /\ NoService
    /\ NoScan
    /\ NoNotify

\* ------------------------------------------------- add-target, remove-target

\* start_monitoring without the guard `if ip in self.monitored_ips`
start_monitoring_unguarded(ip) ==
    /\ main.pc = "idle"
    /\ \E reachable \in BOOLEAN :
       /\ monitored_ips' = Put(monitored_ips, ip,
              [last_scan |-> <<>>, changes |-> <<>>, start_time |-> now])
       /\ history' = Log(IF reachable THEN history
                         ELSE Log(history, <<"WARNING", "not reachable", ip>>),
                         <<"INFO", "Starting initial scan for", ip>>)
       /\ main' = [pc |-> "initial_scan", ip |-> ip]
    /\ UNCHANGED <<scanning_active, scan_thread, now, loops>>
    /\ UNCHANGED callVars

\* start_monitoring(ip) up to the initial scan: the guard, the ping, the new record
start_monitoring(ip) ==
    /\ main.pc = "idle"
    /\ IF Has(monitored_ips, ip)
       THEN /\ history' = Log(history, <<"INFO", "Already monitoring", ip>>)
            /\ UNCHANGED <<monitored_ips, main>>
       ELSE \E reachable \in BOOLEAN :
            /\ monitored_ips' = Put(monitored_ips, ip,
                   [last_scan |-> <<>>, changes |-> <<>>, start_time |-> now])
            /\ history' = Log(IF reachable THEN history
                              ELSE Log(history, <<"WARNING", "not reachable", ip>>),
                              <<"INFO", "Starting initial scan for", ip>>)
            /\ main' = [pc |-> "initial_scan", ip |-> ip]
    /\ UNCHANGED <<scanning_active, scan_thread, now, loops>>
    /\ UNCHANGED callVars

\* start_monitoring(ip) from the initial scan's return to the end
start_monitoring_scanned ==
    /\ main.pc = "initial_scan"
    /\ now < MaxClock
    /\ \E shape \in ScanShapes :
       LET open_ports == Stamp(shape, now + 1)
           rec == Get(monitored_ips, main.ip)
       IN  /\ monitored_ips' = Put(monitored_ips, main.ip,
                                   [rec EXCEPT !.last_scan = open_ports])
           /\ history' \in SaveAndNotify(Log(history,
                  <<"INFO", "Found open ports", Len(open_ports), main.ip>>))
    /\ now' = now + 1
    /\ main' = MainIdle
    /\ UNCHANGED <<scanning_active, scan_thread, loops>>
    /\ UNCHANGED callVars

\* stop_monitoring that clears the whole dict instead of deleting one key
stop_monitoring_clear(ip) ==
    /\ main.pc = "idle"
    /\ IF Has(monitored_ips, ip)
       THEN /\ monitored_ips' = <<>>
            /\ history' \in SaveAndNotify(Log(history,
                   <<"INFO", "Stopped monitoring", ip>>))
       ELSE /\ history' = Log(history, <<"WARNING", "Not monitoring", ip>>)
            /\ UNCHANGED monitored_ips
    /\ UNCHANGED <<scanning_active, scan_thread, now, main, loops>>
    /\ UNCHANGED callVars

stop_monitoring(ip) ==
    /\ main.pc = "idle"
    /\ IF Has(monitored_ips, ip)
       THEN /\ monitored_ips' = Del(monitored_ips, ip)
            /\ history' \in SaveAndNotify(Log(history,
                   <<"INFO", "Stopped monitoring", ip>>))
       ELSE /\ history' = Log(history, <<"WARNING", "Not monitoring", ip>>)
            /\ UNCHANGED monitored_ips
    /\ UNCHANGED <<scanning_active, scan_thread, now, main, loops>>
    /\ UNCHANGED callVars

\* ------------------------------------------------------------- start, stop

Unstarted == {t \in Threads : loops[t].pc = "none"}

\* start without the guard `if self.scanning_active`
start_unguarded ==
    /\ main.pc = "idle"
    /\ Unstarted # {}
    /\ LET t == CHOOSE u \in Unstarted : \A w \in Unstarted : u <= w
       IN  /\ scanning_active' = TRUE
           /\ scan_thread' = t
           /\ loops' = [loops EXCEPT ![t].pc = "while"]
    /\ history' \in Notify(Log(history, <<"INFO", "Monitoring service started">>))
    /\ UNCHANGED <<monitored_ips, now, main>>
    /\ UNCHANGED callVars

start ==
    /\ main.pc = "idle"
    /\ IF scanning_active
       THEN /\ history' = Log(history, <<"INFO", "Monitoring is already active">>)
            /\ UNCHANGED <<scanning_active, scan_thread, loops>>
       ELSE /\ Unstarted # {}
            /\ LET t == CHOOSE u \in Unstarted : \A w \in Unstarted : u <= w
               IN  /\ scanning_active' = TRUE
                   /\ scan_thread' = t
                   /\ loops' = [loops EXCEPT ![t].pc = "while"]
            /\ history' \in Notify(Log(history, <<"INFO", "Monitoring service started">>))
    /\ UNCHANGED <<monitored_ips, now, main>>
    /\ UNCHANGED callVars

\* stop() up to the join
stop ==
    /\ main.pc = "idle"
    /\ IF ~scanning_active
       THEN /\ history' = Log(history, <<"INFO", "Monitoring is not active">>)
            /\ UNCHANGED <<scanning_active, main>>
       ELSE /\ scanning_active' = FALSE
            /\ main' = [pc |-> "join", ip |-> "-"]
            /\ UNCHANGED history
    /\ UNCHANGED <<monitored_ips, scan_thread, now, loops>>
    /\ UNCHANGED callVars

\* scan_thread.join(timeout=5) returns, the thread finished or not, and stop() ends
stop_joined ==
    /\ main.pc = "join"
    /\ main' = MainIdle
    /\ history' \in Notify(Log(history, <<"INFO", "Monitoring service stopped">>))
    /\ UNCHANGED <<monitored_ips, scanning_active, scan_thread, now, loops>>
    /\ UNCHANGED callVars

\* --------------------------------------------------------- monitoring_loop
\* A thread is at "while" from its start, and again from the end of a cycle
\* through time.sleep to the next test of self.scanning_active; at "scan" while
\* scan_ports runs; at "previous", "extend" and "assign" before lines 293, 299
\* and 300.  The steps of the for statement touch only the thread's own list
\* and the log, so each is taken together with the step before it.

\* for ip in <the rest of the list>: self.log(f"Scanning {ip}"), or, the list
\* done, on to time.sleep
NextTarget(todo, h) ==
    IF todo = <<>>
    THEN [loop |-> NoLocals("while", <<>>), history |-> h]
    ELSE [loop |-> [pc |-> "scan", ips |-> Tail(todo), ip |-> Head(todo),
                    current_scan |-> <<>>, changes |-> <<>>],
          history |-> Log(h, <<"INFO", "Scanning", Head(todo)>>)]

\* the except clause around the for statement instead of inside it: the error
\* is logged and the rest of the list is dropped
LoopError_outside(t) ==
    /\ history' = Log(history, <<"ERROR", "Error monitoring", loops[t].ip>>)
    /\ loops' = [loops EXCEPT ![t] = NoLocals("while", <<>>)]
    /\ UNCHANGED monitored_ips

\* except Exception as e: self.log(...), and on to the next target
LoopError(t) ==
    LET n == NextTarget(loops[t].ips,
                        Log(history, <<"ERROR", "Error monitoring", loops[t].ip>>))
    IN  /\ history' = n.history
        /\ loops' = [loops EXCEPT ![t] = n.loop]
        /\ UNCHANGED monitored_ips

\* LoopWhile with `while True:`: the flag is not read
LoopWhile_forever(t) ==
    /\ loops[t].pc = "while"
    /\ LET n == NextTarget(Keys(monitored_ips), history)
       IN  /\ loops' = [loops EXCEPT ![t] = n.loop]
           /\ history' = n.history
    /\ UNCHANGED <<monitored_ips, scanning_active, scan_thread, now, main>>
    /\ UNCHANGED callVars

\* while self.scanning_active: for ip in list(self.monitored_ips.keys()): ...
\* (the two reads are one step: the commands that write the flag do not write
\* the keys, and the other way round, so a command between the reads has the
\* same effect before them)
LoopWhile(t) ==
    /\ loops[t].pc = "while"
    /\ IF scanning_active
       THEN LET n == NextTarget(Keys(monitored_ips), history)
            IN  /\ loops' = [loops EXCEPT ![t] = n.loop]
                /\ history' = n.history
       ELSE /\ loops' = [loops EXCEPT ![t] = NoLocals("done", <<>>)]
            /\ UNCHANGED history
    /\ UNCHANGED <<monitored_ips, scanning_active, scan_thread, now, main>>
    /\ UNCHANGED callVars

\* current_scan = self.scan_ports(ip)
LoopScan(t) ==
    /\ loops[t].pc = "scan"
    /\ now < MaxClock
    /\ \E shape \in ScanShapes :
           loops' = [loops EXCEPT ![t].pc = "previous",
                                  ![t].current_scan = Stamp(shape, now + 1)]
    /\ now' = now + 1
    /\ UNCHANGED <<monitored_ips, scanning_active, scan_thread, history, main>>
    /\ UNCHANGED callVars

\* previous_scan = self.monitored_ips[ip]["last_scan"]; changes = detect_changes(...);
\* with no changes: self.log("No changes detected"), and on to the next target
LoopPrevious(t) ==
    /\ loops[t].pc = "previous"
    /\ IF ~Has(monitored_ips, loops[t].ip) THEN LoopError(t)
       ELSE LET previous_scan == Get(monitored_ips, loops[t].ip).last_scan
                chs == detect_changes(previous_scan, loops[t].current_scan,
                                      loops[t].ip, now)
                n == NextTarget(loops[t].ips, Log(history,
                         <<"INFO", "No changes detected for", loops[t].ip>>))
            IN  /\ IF chs # <<>>
                   THEN /\ loops' = [loops EXCEPT ![t].pc = "extend", ![t].changes = chs]
                        /\ UNCHANGED history
                   ELSE /\ loops' = [loops EXCEPT ![t] = n.loop]
                        /\ history' = n.history
                /\ UNCHANGED monitored_ips
    /\ UNCHANGED <<scanning_active, scan_thread, now, main>>
    /\ UNCHANGED callVars

\* LoopExtend with `["changes"] = changes` instead of `["changes"].extend(changes)`
LoopExtend_replace(t) ==
    /\ loops[t].pc = "extend"
    /\ IF ~Has(monitored_ips, loops[t].ip) THEN LoopError(t)
       ELSE LET rec == Get(monitored_ips, loops[t].ip)
            IN  /\ monitored_ips' = Put(monitored_ips, loops[t].ip,
                       [rec EXCEPT !.changes = loops[t].changes])
                /\ loops' = [loops EXCEPT ![t].pc = "assign"]
                /\ UNCHANGED history
    /\ UNCHANGED <<scanning_active, scan_thread, now, main>>
    /\ UNCHANGED callVars

\* self.monitored_ips[ip]["changes"].extend(changes)
LoopExtend(t) ==
    /\ loops[t].pc = "extend"
    /\ IF ~Has(monitored_ips, loops[t].ip) THEN LoopError(t)
       ELSE LET rec == Get(monitored_ips, loops[t].ip)
            IN  /\ monitored_ips' = Put(monitored_ips, loops[t].ip,
                       [rec EXCEPT !.changes = rec.changes \o loops[t].changes])
                /\ loops' = [loops EXCEPT ![t].pc = "assign"]
                /\ UNCHANGED history
    /\ UNCHANGED <<scanning_active, scan_thread, now, main>>
    /\ UNCHANGED callVars

\* LoopAssign that writes through setdefault: a record that is gone is made anew
LoopAssign_setdefault(t) ==
    /\ loops[t].pc = "assign"
    /\ LET rec == IF Has(monitored_ips, loops[t].ip)
                  THEN Get(monitored_ips, loops[t].ip)
                  ELSE [last_scan |-> <<>>, changes |-> <<>>, start_time |-> now]
       IN  /\ monitored_ips' = Put(monitored_ips, loops[t].ip,
                  [rec EXCEPT !.last_scan = loops[t].current_scan])
           /\ \E h \in NotifyChanges(history, loops[t].changes, 1) :
                  LET n == NextTarget(loops[t].ips, h)
                  IN  /\ loops' = [loops EXCEPT ![t] = n.loop]
                      /\ history' = n.history
    /\ UNCHANGED <<scanning_active, scan_thread, now, main>>
    /\ UNCHANGED callVars

\* LoopAssign without line 300: last_scan keeps the scan it held
LoopAssign_unassigned(t) ==
    /\ loops[t].pc = "assign"
    /\ IF ~Has(monitored_ips, loops[t].ip) THEN LoopError(t)
       ELSE /\ UNCHANGED monitored_ips
            /\ \E h \in NotifyChanges(history, loops[t].changes, 1) :
                   LET n == NextTarget(loops[t].ips, h)
                   IN  /\ loops' = [loops EXCEPT ![t] = n.loop]
                       /\ history' = n.history
    /\ UNCHANGED <<scanning_active, scan_thread, now, main>>
    /\ UNCHANGED callVars

\* self.monitored_ips[ip]["last_scan"] = current_scan, then the notifications
LoopAssign(t) ==
    /\ loops[t].pc = "assign"
    /\ IF ~Has(monitored_ips, loops[t].ip) THEN LoopError(t)
       ELSE LET rec == Get(monitored_ips, loops[t].ip)
            IN  /\ monitored_ips' = Put(monitored_ips, loops[t].ip,
                       [rec EXCEPT !.last_scan = loops[t].current_scan])
                /\ \E h \in NotifyChanges(history, loops[t].changes, 1) :
                       LET n == NextTarget(loops[t].ips, h)
                       IN  /\ loops' = [loops EXCEPT ![t] = n.loop]
                           /\ history' = n.history
    /\ UNCHANGED <<scanning_active, scan_thread, now, main>>
    /\ UNCHANGED callVars

monitoring_loop(t) ==
    \/ LoopWhile(t)
    \/ LoopScan(t)
    \/ LoopPrevious(t)
    \/ LoopExtend(t)
    \/ LoopAssign(t)

Next ==
    \/ \E ip \in IPs : start_monitoring(ip)
    \/ start_monitoring_scanned
    \/ \E ip \in IPs : stop_monitoring(ip)
    \/ start
    \/ stop
    \/ stop_joined
    \/ \E t \in Threads : monitoring_loop(t)

Spec == Init /\ [][Next]_vars

\* the commands of a session in which start() is not called again once a
\* monitoring_loop thread has been started
NextStop ==
    \/ \E ip \in IPs : start_monitoring(ip)
    \/ start_monitoring_scanned
    \/ \E ip \in IPs : stop_monitoring(ip)
    \/ (start /\ (scanning_active \/ Unstarted = Threads))
    \/ stop
    \/ stop_joined
    \/ \E t \in Threads : monitoring_loop(t)

\* such a session with every monitoring_loop thread scheduled again and again:
\* a thread that can take a step takes one; scan_ports and time.sleep return
SpecStop == Init /\ [][NextStop]_vars /\ \A t \in Threads : WF_vars(monitoring_loop(t))

\* ------------------------------------------------- detect_changes on its own

DiffPorts == {22, 443}
DiffServices == {"ssh", "http"}
DiffBanners == {<<>>, <<"S", "S", "H", "-", "2">>}
DiffIp == "10.0.0.1"

PortInfos == [service : DiffServices, banner : DiffBanners, timestamp : 0..MaxTime]

\* the key orders a dict over the keys of S can have
KeyOrders(S) ==
    {ks \in UNION {[1..n -> S] : n \in 0..Cardinality(S)} :
        \A i, j \in 1..Len(ks) : ks[i] = ks[j] => i = j}

\* every scan result shape: distinct ports in any order, each with a PortInfo
Snapshots ==
    UNION {{[i \in 1..Len(ks) |-> [k |-> ks[i], v |-> vs[i]]] :
               vs \in [1..Len(ks) -> PortInfos]} : ks \in KeyOrders(DiffPorts)}

InitDiff ==
    /\ monitored_ips = <<>>
    /\ scanning_active = FALSE
    /\ scan_thread = 0
    /\ history = <<>>
    /\ now \in 0..MaxTime
    /\ main = MainIdle
    /\ loops = [t \in Threads |-> NoLocals("none", <<>>)]
    /\ old_scan \in Snapshots
    /\ new_scan \in Snapshots
    /\ diff_changes = <<>>
    /\ diffed = FALSE
    /\ NoService
    /\ NoScan
    /\ NoNotify

\* changes = self.detect_changes(previous_scan, current_scan, ip)
DetectChanges ==
    /\ ~diffed
    /\ diff_changes' = detect_changes(old_scan, new_scan, DiffIp, now)
    /\ diffed' = TRUE
    /\ UNCHANGED <<old_scan, new_scan>>
    /\ UNCHANGED <<monitorVars, classifierVars, scannerVars, notifierVars>>

NextDiff == DetectChanges

SpecDiff == InitDiff /\ [][NextDiff]_vars

\* --------------------------------------------- get_service_name on its own

\* ports in COMMON_SERVICES (21, 22, 25, 80, 443, 3306) and one outside it
ServicePorts == {21, 22, 25, 80, 443, 3306, 999}

\* banners with no keyword, one keyword, and two keywords in either order
ServiceBanners ==
    {<<>>,
     <<"S", "S", "H", "-", "2">>,
     <<"h", "t", "t", "p">>,
     <<"H", "T", "T", "P", "/", "1", " ", "s", "s", "h">>,
     <<"s", "m", "t", "p", " ", "h", "t", "t", "p">>,
     <<"f", "t", "p", " ", "s", "m", "t", "p">>,
     <<"m", "y", "s", "q", "l", " ", "f", "t", "p">>,
     <<"M", "y", "S", "Q", "L">>,
     <<"s", "f", "t", "p">>,
     <<"h", "e", "l", "l", "o">>,
     <<"2", "2", "0", " ", "S", "M", "T", "P">>,
     <<"F", "T", "P">>,
     <<"s", "s", "h", "t", "t", "p">>,
     <<"h", "t", "t", "p", "s", " ", "o", "k">>}

InitService ==
    /\ monitored_ips = <<>>
    /\ scanning_active = FALSE
    /\ scan_thread = 0
    /\ history = <<>>
    /\ now = 0
    /\ main = MainIdle
    /\ loops = [t \in Threads |-> NoLocals("none", <<>>)]
    /\ NoDiff
    /\ svc_port \in ServicePorts
    /\ svc_banner \in ServiceBanners
    /\ svc_name = ""
    /\ svc_done = FALSE
    /\ NoScan
    /\ NoNotify

\* service = self.get_service_name(port, banner)
GetServiceName ==
    /\ ~svc_done
    /\ svc_name' = get_service_name(svc_port, svc_banner)
    /\ svc_done' = TRUE
    /\ UNCHANGED <<svc_port, svc_banner>>
    /\ UNCHANGED <<monitorVars, differVars, scannerVars, notifierVars>>

NextService == GetServiceName

SpecService == InitService /\ [][NextService]_vars

\* ---------------------------------------------------- scan_ports on its own
\* One call of scan_ports with its pool: ThreadPoolExecutor runs at most
\* max_workers submitted calls at a time, first submitted first started;
\* as_completed hands the finished futures to the loop of line 227 in any order;
\* leaving the with block waits for every future.

\* the ports this call probes, out of 1..65535: 22 is in COMMON_SERVICES and in
\* range(1, 1001), 8080 in COMMON_SERVICES only
ScanUniverse == {22, 8080}

\* ports=None, and the lists the scan command builds from "a-b" and "a,b"
ScanArgs ==
    {PortsNone} \cup {[given |-> TRUE, ports |-> ps] : ps \in {<<>>, <<8080>>, <<8080, 22>>}}

\* a future nobody has run yet
Pending == [state |-> "pending", net |-> [connect |-> "-", recv |-> <<>>],
            result |-> [is_open |-> FALSE, banner |-> <<>>]]

InitScan ==
    /\ monitored_ips = <<>>
    /\ scanning_active = FALSE
    /\ scan_thread = 0
    /\ history = <<>>
    /\ now = 0
    /\ main = MainIdle
    /\ loops = [t \in Threads |-> NoLocals("none", <<>>)]
    /\ NoDiff
    /\ NoService
    /\ NoNotify
    /\ sc_arg \in ScanArgs
    /\ sc_workers \in 1..MaxWorkers
    /\ sc_pc = "call"
    /\ sc_ports = <<>>
    /\ sc_futures = <<>>
    /\ sc_open = <<>>

\* if ports is None: ports = ...; open_ports = {}; every port submitted
ScanCall ==
    /\ sc_pc = "call"
    /\ LET ports == IF sc_arg.given THEN sc_arg.ports ELSE DefaultPortsIn(ScanUniverse)
       IN  /\ sc_ports' = ports
           /\ sc_futures' = [f \in 1..Len(ports) |-> Pending]
    /\ sc_pc' = "pool"
    /\ UNCHANGED <<sc_arg, sc_workers, sc_open>>
    /\ UNCHANGED <<monitorVars, differVars, classifierVars, notifierVars>>

InState(st) == {f \in 1..Len(sc_futures) : sc_futures[f].state = st}

\* a worker of the pool takes the oldest submitted call that has not started
WorkerRun ==
    /\ sc_pc = "pool"
    /\ InState("pending") # {}
    /\ Cardinality(InState("running")) < sc_workers
    /\ LET f == CHOOSE g \in InState("pending") : \A h \in InState("pending") : g <= h
       IN  sc_futures' = [sc_futures EXCEPT ![f].state = "running"]
    /\ UNCHANGED <<sc_arg, sc_workers, sc_pc, sc_ports, sc_open>>
    /\ UNCHANGED <<monitorVars, differVars, classifierVars, notifierVars>>

\* scan_port(ip, port) returns in its worker
ProbeReturn(f) ==
    /\ sc_pc = "pool"
    /\ sc_futures[f].state = "running"
    /\ \E net \in NetOutcomes :
           sc_futures' = [sc_futures EXCEPT
               ![f] = [state |-> "finished", net |-> net, result |-> scan_port(net)]]
    /\ UNCHANGED <<sc_arg, sc_workers, sc_pc, sc_ports, sc_open>>
    /\ UNCHANGED <<monitorVars, differVars, classifierVars, notifierVars>>

\* the body of `for future in as_completed(...)` with the port read off the
\* place of the future in completion order instead of future_to_port[future]
TakeCompleted_by_position(f) ==
    /\ sc_pc = "pool"
    /\ sc_futures[f].state = "finished"
    /\ LET port == sc_ports[Cardinality(InState("taken")) + 1]
           r == sc_futures[f].result
       IN  sc_open' = IF r.is_open
                      THEN Put(sc_open, port,
                               [service |-> get_service_name(port, r.banner),
                                banner |-> r.banner, timestamp |-> now])
                      ELSE sc_open
    /\ sc_futures' = [sc_futures EXCEPT ![f].state = "taken"]
    /\ UNCHANGED <<sc_arg, sc_workers, sc_pc, sc_ports>>
    /\ UNCHANGED <<monitorVars, differVars, classifierVars, notifierVars>>

\* the body of `for future in as_completed(future_to_port)` for one future
TakeCompleted(f) ==
    /\ sc_pc = "pool"
    /\ sc_futures[f].state = "finished"
    /\ LET port == sc_ports[f]
           r == sc_futures[f].result
       IN  sc_open' = IF r.is_open
                      THEN Put(sc_open, port,
                               [service |-> get_service_name(port, r.banner),
                                banner |-> r.banner, timestamp |-> now])
                      ELSE sc_open
    /\ sc_futures' = [sc_futures EXCEPT ![f].state = "taken"]
    /\ UNCHANGED <<sc_arg, sc_workers, sc_pc, sc_ports>>
    /\ UNCHANGED <<monitorVars, differVars, classifierVars, notifierVars>>

\* as_completed is exhausted, the with block is left: return open_ports
ScanReturn ==
    /\ sc_pc = "pool"
    /\ InState("taken") = 1..Len(sc_futures)
    /\ sc_pc' = "returned"
    /\ UNCHANGED <<sc_arg, sc_workers, sc_ports, sc_futures, sc_open>>
    /\ UNCHANGED <<monitorVars, differVars, classifierVars, notifierVars>>

NextScan ==
    \/ ScanCall
    \/ WorkerRun
    \/ \E f \in 1..Len(sc_futures) : ProbeReturn(f)
    \/ \E f \in 1..Len(sc_futures) : TakeCompleted(f)
    \/ ScanReturn

SpecScan == InitScan /\ [][NextScan]_vars

\* ------------------------------------------------ notifications on their own
\* The `if changes:` block of monitoring_loop for one target, a step for each
\* log and each send, and the send at the end of start_monitoring,
\* stop_monitoring, start and stop.

\* self.history = deque(maxlen=1000)
HistoryLen == 1000

\* self.log on a history of HistoryLen lines
LogTo(h, line) ==
    LET s == Append(h, line)
    IN  IF Len(s) > HistoryLen THEN SubSeq(s, Len(s) - HistoryLen + 1, Len(s)) ELSE s

\* how requests.post can end: status 200, another status, an exception
PostOutcomes == {"200", "other", "raises"}

\* send_telegram_message that lets the exception of requests.post through
send_telegram_message_uncaught(log, posts, message, cfg) ==
    IF ~cfg.token \/ ~cfg.chat_id THEN {[log |-> log, posts |-> posts, raised |-> FALSE]}
    ELSE {[log |-> log,
           posts |-> Append(posts, [text |-> message, outcome |-> o]),
           raised |-> (o = "raises")] : o \in PostOutcomes}

\* send_telegram_message(message): what it leaves of the log and of the posts
\* made, and whether an exception leaves it
send_telegram_message(log, posts, message, cfg) ==
    IF ~cfg.token \/ ~cfg.chat_id THEN {[log |-> log, posts |-> posts, raised |-> FALSE]}
    ELSE {[log |-> IF o = "raises"
                   THEN LogTo(log, <<"ERROR", "Telegram API error">>) ELSE log,
           posts |-> Append(posts, [text |-> message, outcome |-> o]),
           raised |-> FALSE] : o \in PostOutcomes}

\* if config["telegram"]["enabled"] and config["telegram"]["chat_id"]: send
SendIfEnabled(log, posts, message, cfg) ==
    IF cfg.enabled /\ cfg.chat_id
    THEN send_telegram_message(log, posts, message, cfg)
    ELSE {[log |-> log, posts |-> posts, raised |-> FALSE]}

\* scan results without banners, all of one time
NotifySnapshots ==
    {sn \in Snapshots :
        \A i \in 1..Len(sn) : sn[i].v.banner = <<>> /\ sn[i].v.timestamp = 0}

\* the texts start_monitoring, stop_monitoring, start and stop send
LifecycleMessages ==
    {<<"Started monitoring", DiffIp>>, <<"Stopped monitoring", DiffIp>>,
     <<"Monitoring Tool Started">>, <<"Monitoring Stopped">>}

InitNotify ==
    /\ monitored_ips = <<>>
    /\ scanning_active = FALSE
    /\ scan_thread = 0
    /\ history = <<>>
    /\ now = 0
    /\ main = MainIdle
    /\ loops = [t \in Threads |-> NoLocals("none", <<>>)]
    /\ NoDiff
    /\ NoService
    /\ NoScan
    /\ nt_cfg \in [enabled : BOOLEAN, token : BOOLEAN, chat_id : BOOLEAN]
    /\ nt_changes = <<>>
    /\ nt_i = 1
    /\ nt_log = <<>>
    /\ nt_posts = <<>>
    /\ \/ /\ nt_pc = "previous"
          /\ \E sn \in NotifySnapshots :
                 nt_rec = [last_scan |-> sn, changes |-> <<>>, start_time |-> 0]
          /\ nt_scan \in NotifySnapshots
       \/ /\ nt_pc = "lifecycle"
          /\ nt_rec = [last_scan |-> <<>>, changes |-> <<>>, start_time |-> 0]
          /\ nt_scan = <<>>

\* lines 293-298 and 309: the diff and the test of `if changes:`
NtPrevious ==
    /\ nt_pc = "previous"
    /\ LET chs == detect_changes(nt_rec.last_scan, nt_scan, DiffIp, now)
       IN  IF chs # <<>>
           THEN /\ nt_changes' = chs
                /\ nt_pc' = "update"
                /\ UNCHANGED nt_log
           ELSE /\ nt_log' = LogTo(nt_log, <<"INFO", "No changes detected for", DiffIp>>)
                /\ nt_pc' = "next"
                /\ UNCHANGED nt_changes
    /\ UNCHANGED <<nt_cfg, nt_rec, nt_scan, nt_i, nt_posts>>
    /\ UNCHANGED <<monitorVars, differVars, classifierVars, scannerVars>>

\* lines 299-300
NtUpdate ==
    /\ nt_pc = "update"
    /\ nt_rec' = [nt_rec EXCEPT !.changes = nt_rec.changes \o nt_changes,
                                !.last_scan = nt_scan]
    /\ nt_pc' = "log"
    /\ nt_i' = 1
    /\ UNCHANGED <<nt_cfg, nt_scan, nt_changes, nt_log, nt_posts>>
    /\ UNCHANGED <<monitorVars, differVars, classifierVars, scannerVars>>

\* line 304: self.log(change["message"])
NtLog ==
    /\ nt_pc = "log"
    /\ nt_log' = LogTo(nt_log, <<"INFO">> \o nt_changes[nt_i].message)
    /\ nt_pc' = "send"
    /\ UNCHANGED <<nt_cfg, nt_rec, nt_scan, nt_changes, nt_i, nt_posts>>
    /\ UNCHANGED <<monitorVars, differVars, classifierVars, scannerVars>>

\* lines 306-307, then the next change, or, the list done, the next target;
\* an exception would go to the except clause of line 311
NtSend ==
    /\ nt_pc = "send"
    /\ \E r \in SendIfEnabled(nt_log, nt_posts, nt_changes[nt_i].message, nt_cfg) :
           /\ nt_posts' = r.posts
           /\ IF r.raised
              THEN /\ nt_log' = LogTo(r.log, <<"ERROR", "Error monitoring", DiffIp>>)
                   /\ nt_pc' = "next"
                   /\ UNCHANGED nt_i
              ELSE /\ nt_log' = r.log
                   /\ nt_i' = nt_i + 1
                   /\ nt_pc' = IF nt_i = Len(nt_changes) THEN "next" ELSE "log"
    /\ UNCHANGED <<nt_cfg, nt_rec, nt_scan, nt_changes>>
    /\ UNCHANGED <<monitorVars, differVars, classifierVars, scannerVars>>

\* lines 267-271, 281-282, 494-495, 510-511: the send that ends a command; an
\* exception would leave the command
NtLifecycle ==
    /\ nt_pc = "lifecycle"
    /\ \E m \in LifecycleMessages :
       \E r \in SendIfEnabled(nt_log, nt_posts, m, nt_cfg) :
           /\ nt_posts' = r.posts
           /\ nt_log' = r.log
           /\ nt_pc' = IF r.raised THEN "raised" ELSE "returned"
    /\ UNCHANGED <<nt_cfg, nt_rec, nt_scan, nt_changes, nt_i>>
    /\ UNCHANGED <<monitorVars, differVars, classifierVars, scannerVars>>

NextNotify ==
    \/ NtPrevious
    \/ NtUpdate
    \/ NtLog
    \/ NtSend
    \/ NtLifecycle

SpecNotify == InitNotify /\ [][NextNotify]_vars

\* ----------------------------------------------------------------- claims

LastLine(h) == IF h = <<>> THEN <<>> ELSE h[Len(h)]

InCycle(t) == loops[t].pc \in {"scan", "previous", "extend", "assign"}

\* C1: at most one monitoring loop is executing a cycle at any time, whatever
\* start() and stop() calls came before.
C1_SingleFlight == Cardinality({t \in Threads : InCycle(t)}) <= 1

\* C2: once stop() has returned and until start() is called again, no step of
\* a monitoring loop changes any target's record.
C2_StoppedIsQuiet ==
    [][(~scanning_active /\ main.pc # "join" /\ loops' # loops)
          => monitored_ips' = monitored_ips]_vars

\* C3: a target's record is neither removed nor created while a cycle is
\* between its read of that record (line 293) and its writes to it (lines
\* 299, 300).
C3_RecordExclusive ==
    [][\A ip \in IPs :
          Has(monitored_ips, ip) # Has(monitored_ips', ip)
          => ~\E t \in Threads : loops[t].ip = ip /\ loops[t].pc \in {"extend", "assign"}]_vars

\* C4: a record that is in monitored_ips holds the result of a completed scan
\* as its last_scan, never the placeholder start_monitoring creates it with,
\* and no cycle holds events it diffed against that placeholder.
C4_NoPlaceholder ==
    /\ \A ip \in KeySet(monitored_ips) :
           ~(main.pc = "initial_scan" /\ main.ip = ip
             /\ Get(monitored_ips, ip).last_scan = <<>>)
    /\ \A t \in Threads :
           loops[t].pc \in {"extend", "assign"}
           => ~(main.pc = "initial_scan" /\ main.ip = loops[t].ip)

\* C5: when a cycle is done with a target whose record is there, the record's
\* last_scan is the scan the cycle just made, changes or no changes.
C5_ReplaceAlways ==
    [][\A t \in Threads :
          (/\ loops[t].pc \in {"previous", "assign"}
           /\ Has(monitored_ips, loops[t].ip)
           /\ loops'[t] # loops[t]
           /\ loops'[t].pc # "extend")
          => Get(monitored_ips', loops[t].ip).last_scan = loops[t].current_scan]_vars

\* C6: start_monitoring of an ip that is monitored logs "Already monitoring"
\* and changes nothing else: no record, no scan, no thread.
C6_AddExisting ==
    [][\A ip \in IPs :
          (start_monitoring(ip) /\ Has(monitored_ips, ip))
          => /\ monitored_ips' = monitored_ips
             /\ now' = now
             /\ main' = main
             /\ loops' = loops
             /\ LastLine(history') = <<"INFO", "Already monitoring", ip>>]_vars

C6_Witness ==
    \E ip \in IPs :
        /\ Has(monitored_ips, ip)
        /\ Get(monitored_ips, ip).last_scan # <<>>
        /\ Get(monitored_ips, ip).changes # <<>>
        /\ LastLine(history) = <<"INFO", "Already monitoring", ip>>

\* C7: stop_monitoring of an ip that is not monitored logs "Not monitoring"
\* and changes no record; of a monitored ip it drops that record and leaves
\* every other record, and no other key, as it was.
C7_RemoveExactlyOne ==
    [][\A ip \in IPs :
          stop_monitoring(ip)
          => IF Has(monitored_ips, ip)
             THEN /\ KeySet(monitored_ips') = KeySet(monitored_ips) \ {ip}
                  /\ \A o \in KeySet(monitored_ips) \ {ip} :
                         Get(monitored_ips', o) = Get(monitored_ips, o)
             ELSE /\ monitored_ips' = monitored_ips
                  /\ LastLine(history') = <<"WARNING", "Not monitoring", ip>>]_vars

C7_Witness ==
    \E ip \in IPs :
        /\ LastLine(history) = <<"INFO", "Stopped monitoring", ip>>
        /\ ~Has(monitored_ips, ip)
        /\ Len(monitored_ips) = 1
        /\ monitored_ips[1].v.last_scan # <<>>

\* C8: start() while the service runs and stop() while it is stopped change
\* neither the flag, nor the thread, nor the loops, nor any record, and the
\* command thread goes on (nothing is joined, nothing is raised).
C8_NoOps ==
    [][/\ (start /\ scanning_active)
          => /\ scanning_active'
             /\ UNCHANGED <<scan_thread, loops, monitored_ips, main, now>>
       /\ (stop /\ ~scanning_active)
          => /\ ~scanning_active'
             /\ UNCHANGED <<scan_thread, loops, monitored_ips, main, now>>]_vars

C8_Witness ==
    /\ scanning_active
    /\ LastLine(history) = <<"INFO", "Monitoring is already active">>
    /\ \E t \in Threads : InCycle(t)
    /\ monitored_ips # <<>>

\* C9: detect_changes of a snapshot against itself returns no event.
C9_DiffSelfEmpty == (diffed /\ old_scan = new_scan) => diff_changes = <<>>

C9_Witness == diffed /\ old_scan = new_scan /\ Len(old_scan) = 2

OpenedOf(chs) == SelectSeq(chs, LAMBDA c : c.type = "port_opened")

\* C10: detect_changes returns exactly one port_opened event for each port in
\* new_scan and not in old_scan, with that port's service in new_scan, and no
\* port_opened event for any other port.
C10_OpenedExactly ==
    diffed =>
        LET opened == OpenedOf(diff_changes)
            fresh == KeySet(new_scan) \ KeySet(old_scan)
        IN  /\ \A i \in 1..Len(opened) : opened[i].port \in fresh
            /\ \A p \in fresh :
                   /\ Cardinality({i \in 1..Len(opened) : opened[i].port = p}) = 1
                   /\ \A i \in 1..Len(opened) :
                          opened[i].port = p
                          => opened[i].service = Get(new_scan, p).service

C10_Witness ==
    /\ diffed
    /\ Len(old_scan) = 1
    /\ Len(new_scan) = 2
    /\ Has(new_scan, old_scan[1].k)
    /\ Len(OpenedOf(diff_changes)) = 1

ClosedOf(chs) == SelectSeq(chs, LAMBDA c : c.type = "port_closed")

\* C11: detect_changes returns exactly one port_closed event for each port in
\* old_scan and not in new_scan, with that port's service in old_scan, and no
\* port_closed event for any other port.
C11_ClosedExactly ==
    diffed =>
        LET closed == ClosedOf(diff_changes)
            gone == KeySet(old_scan) \ KeySet(new_scan)
        IN  /\ \A i \in 1..Len(closed) : closed[i].port \in gone
            /\ \A p \in gone :
                   /\ Cardinality({i \in 1..Len(closed) : closed[i].port = p}) = 1
                   /\ \A i \in 1..Len(closed) :
                          closed[i].port = p
                          => closed[i].service = Get(old_scan, p).service

C11_Witness ==
    /\ diffed
    /\ Len(old_scan) = 2
    /\ Len(new_scan) = 1
    /\ Has(old_scan, new_scan[1].k)
    /\ Len(ClosedOf(diff_changes)) = 1

ChangedOf(chs) == SelectSeq(chs, LAMBDA c : c.type = "service_change")

\* the ports both scans hold, with different 'service' values
Relabelled(old, new) ==
    {p \in KeySet(old) \cap KeySet(new) : Get(old, p).service # Get(new, p).service}

\* C12: for each port in both scans whose service differs, detect_changes
\* returns exactly one service_change event, carrying the old and the new
\* service, and neither a port_opened nor a port_closed event for that port.
C12_ServiceChangedExactly ==
    diffed =>
        LET changed == ChangedOf(diff_changes)
        IN  \A p \in Relabelled(old_scan, new_scan) :
                /\ Cardinality({i \in 1..Len(changed) : changed[i].port = p}) = 1
                /\ \A i \in 1..Len(changed) :
                       changed[i].port = p
                       => /\ changed[i].old_service = Get(old_scan, p).service
                          /\ changed[i].new_service = Get(new_scan, p).service
                /\ \A i \in 1..Len(diff_changes) :
                       diff_changes[i].port = p
                       => diff_changes[i].type = "service_change"

C12_Witness ==
    /\ diffed
    /\ Cardinality(Relabelled(old_scan, new_scan)) = 2
    /\ Len(diff_changes) = 2

\* the keys of S in ascending order
Ascending(S) ==
    CHOOSE ks \in KeyOrders(S) :
        /\ Len(ks) = Cardinality(S)
        /\ \A i, j \in 1..Len(ks) : i < j => ks[i] < ks[j]

\* a scan reduced to its port-to-service mapping: ports ascending, banner and
\* timestamp blanked
LabelsOnly(scan) ==
    LET ks == Ascending(KeySet(scan))
    IN  [i \in 1..Len(ks) |->
            [k |-> ks[i],
             v |-> [service |-> Get(scan, ks[i]).service,
                    banner |-> <<>>, timestamp |-> 0]]]

\* the kind and port of every event of chs
KindsAndPorts(chs) == {<<chs[i].type, chs[i].port>> : i \in 1..Len(chs)}

\* the ports both scans hold with the same service but another banner or
\* timestamp
Rebannered(old, new) ==
    {p \in KeySet(old) \cap KeySet(new) :
        /\ Get(old, p).service = Get(new, p).service
        /\ Get(old, p) # Get(new, p)}

\* C13: detect_changes returns no event for a port that is in both scans with
\* the same service, whatever its banners and timestamps are; and the kinds
\* and ports of the events it returns are those it returns for the two
\* port-to-service mappings alone.
C13_LabelsOnly ==
    diffed =>
        /\ \A p \in KeySet(old_scan) \cap KeySet(new_scan) :
               Get(old_scan, p).service = Get(new_scan, p).service
               => \A i \in 1..Len(diff_changes) : diff_changes[i].port # p
        /\ KindsAndPorts(diff_changes)
              = KindsAndPorts(detect_changes(LabelsOnly(old_scan),
                                             LabelsOnly(new_scan), DiffIp, 0))

C13_Witness ==
    /\ diffed
    /\ Cardinality(Rebannered(old_scan, new_scan)) = 1
    /\ Len(diff_changes) = 1
    /\ old_scan[1].k # new_scan[1].k

\* the port-to-service mapping of a scan
ServiceOf(scan) == [p \in KeySet(scan) |-> Get(scan, p).service]

\* C14: a cycle that is done with a target leaves a last_scan with the ports
\* and services of the scan it made; and a cycle whose scan has the ports and
\* services of the target's last_scan finds no change and leaves the record,
\* its changes and its last_scan, as it was. So the second of two cycles in a
\* row on a target whose ports and services stay the same adds no event and
\* keeps the ports of last_scan.
C14_QuietCycle ==
    [][\A t \in Threads :
          /\ (/\ loops[t].pc = "previous"
              /\ Has(monitored_ips, loops[t].ip)
              /\ loops'[t] # loops[t]
              /\ ServiceOf(Get(monitored_ips, loops[t].ip).last_scan)
                    = ServiceOf(loops[t].current_scan))
             => /\ loops'[t].pc # "extend"
                /\ monitored_ips' = monitored_ips
          /\ (/\ loops[t].pc \in {"previous", "assign"}
              /\ Has(monitored_ips, loops[t].ip)
              /\ loops'[t] # loops[t]
              /\ loops'[t].pc # "extend")
             => ServiceOf(Get(monitored_ips', loops[t].ip).last_scan)
                  = ServiceOf(loops[t].current_scan)]_vars

\* two scans after the initial one, and the record is as the initial scan left it
C14_Witness ==
    \E ip \in IPs :
        /\ Len(monitored_ips) = 1
        /\ Has(monitored_ips, ip)
        /\ Len(Get(monitored_ips, ip).last_scan) = 1
        /\ Get(monitored_ips, ip).last_scan[1].v.timestamp = 1
        /\ Get(monitored_ips, ip).changes = <<>>
        /\ now = 3
        /\ LastLine(history) = <<"INFO", "No changes detected for", ip>>
        /\ loops[1].pc = "while"
        /\ loops[2].pc = "none"

\* the keyword is in the banner, whatever the case of the banner's letters
Mentions(banner, kw) == Contains(Lower(banner), kw)

\* C15 as stated: get_service_name(443, banner) is "https" for every banner.
C15_Https443Always == (svc_done /\ svc_port = 443) => svc_name = "https"

\* C15 as amended: get_service_name(443, banner) is "https" exactly for the
\* banners that do not hold "ssh" and that hold "http" or none of "smtp",
\* "ftp" and "mysql"; an empty banner is one of them.
C15_Https443 ==
    (svc_done /\ svc_port = 443)
    => (svc_name = "https"
        <=> /\ ~Mentions(svc_banner, KwSsh)
            /\ \/ Mentions(svc_banner, KwHttp)
               \/ ~(\/ Mentions(svc_banner, KwSmtp)
                    \/ Mentions(svc_banner, KwFtp)
                    \/ Mentions(svc_banner, KwMysql)))

C15_Witness ==
    /\ svc_done
    /\ svc_port = 443
    /\ Mentions(svc_banner, KwSmtp)
    /\ Mentions(svc_banner, KwHttp)
    /\ svc_name = "https"

\* the banner rules in the order the claim gives them
Rules ==
    <<[kw |-> KwSsh, label |-> "ssh"], [kw |-> KwHttp, label |-> "http"],
      [kw |-> KwSmtp, label |-> "smtp"], [kw |-> KwFtp, label |-> "ftp"],
      [kw |-> KwMysql, label |-> "mysql"]>>

Matching(banner) == {i \in 1..Len(Rules) : Mentions(banner, Rules[i].kw)}

TableLabel(port) ==
    IF \E i \in 1..Len(COMMON_SERVICES) : COMMON_SERVICES[i].k = port
    THEN (CHOOSE e \in {COMMON_SERVICES[i] : i \in 1..Len(COMMON_SERVICES)} :
              e.k = port).v
    ELSE "unknown"

\* C16: get_service_name returns a label for every port and banner: of the
\* rules ssh, http, smtp, ftp, mysql, the first whose keyword is in a
\* non-empty banner, in any case of letters, gives the label, the http rule
\* giving "https" for port 443 and "http" for any other port; an empty banner
\* or one no rule matches leaves the table's label, "unknown" for a port that
\* is not in the table.
C16_RuleOrder ==
    svc_done =>
        LET m == Matching(svc_banner)
            first == CHOOSE i \in m : \A j \in m : i <= j
        IN  /\ svc_name # ""
            /\ IF svc_banner = <<>> \/ m = {}
               THEN svc_name = TableLabel(svc_port)
               ELSE svc_name = IF Rules[first].label = "http"
                               THEN (IF svc_port = 443 THEN "https" ELSE "http")
                               ELSE Rules[first].label

\* a banner with "HTTP" in capitals before "ssh": the ssh rule wins
C16_Witness ==
    /\ svc_done
    /\ svc_port = 80
    /\ Cardinality(Matching(svc_banner)) = 2
    /\ svc_banner[1] = "H"
    /\ svc_name = "ssh"

\* the futures whose scan_port call returned is_open
Open == {f \in 1..Len(sc_futures) : sc_futures[f].result.is_open}

\* every probe of a port met the same answer of the network
FixedOutcomes ==
    \A f, g \in 1..Len(sc_futures) :
        sc_ports[f] = sc_ports[g] => sc_futures[f].net = sc_futures[g].net

\* C17: when every probe of a port meets the same outcome, the dict scan_ports
\* returns is given by the ports and those outcomes alone, whatever
\* max_workers is and in whatever order the probes start, finish and are
\* taken: its keys are the ports a probe reported open, each once, each with
\* the banner the probe read and the service of that port and banner.
C17_SameSnapshot ==
    (sc_pc = "returned" /\ FixedOutcomes)
    => /\ KeySet(sc_open) = {sc_ports[f] : f \in Open}
       /\ Len(sc_open) = Cardinality(KeySet(sc_open))
       /\ \A f \in Open :
              /\ Get(sc_open, sc_ports[f]).banner = sc_futures[f].net.recv
              /\ Get(sc_open, sc_ports[f]).service
                    = get_service_name(sc_ports[f], sc_futures[f].net.recv)

\* two workers, three probes, and the dict's keys in another order than ports
C17_Witness ==
    /\ sc_pc = "returned"
    /\ FixedOutcomes
    /\ sc_workers = 2
    /\ sc_ports = <<22, 8080, 22>>
    /\ Keys(sc_open) = <<8080, 22>>
    /\ Get(sc_open, 8080).service = "http"

\* C19: scan_ports returns only when every future has finished and been taken,
\* failed probes or not, and a port one of whose probes failed (connection
\* refused, timed out, or an exception in scan_port) is not in the dict.
C19_FailedIsClosed ==
    sc_pc = "returned"
    => /\ \A f \in 1..Len(sc_futures) : sc_futures[f].state = "taken"
       /\ \A f \in 1..Len(sc_futures) :
              ~sc_futures[f].result.is_open => ~Has(sc_open, sc_ports[f])

\* the ports of ScanUniverse that COMMON_SERVICES or 1..1000 holds
DefaultUnion == {p \in ScanUniverse : Has(COMMON_SERVICES, p) \/ p \in 1..1000}

\* C20: with ports=None, one future is submitted for each port of
\* COMMON_SERVICES and of 1..1000, and no two futures have the same port.
C20_ProbedOnce ==
    (sc_pc # "call" /\ ~sc_arg.given)
    => \A p \in DefaultUnion :
           Cardinality({f \in 1..Len(sc_futures) : sc_ports[f] = p}) = 1

\* C18: a step of a cycle that fails on its target (the record is gone when
\* line 293, 299 or 300 reads it) changes no record and takes the cycle to the
\* next target of the list it took at its start, or, the list done, to the
\* sleep before the next cycle; and no step of a cycle drops or skips a
\* target of that list or ends the loop.
C18_FailureIsolated ==
    [][\A t \in Threads :
          LET OnToNext ==
                  IF loops[t].ips = <<>>
                  THEN loops'[t].pc = "while"
                  ELSE /\ loops'[t].pc = "scan"
                       /\ loops'[t].ip = Head(loops[t].ips)
                       /\ loops'[t].ips = Tail(loops[t].ips)
          IN  /\ (/\ loops[t].pc \in {"previous", "extend", "assign"}
                  /\ ~Has(monitored_ips, loops[t].ip)
                  /\ loops'[t] # loops[t])
                 => (monitored_ips' = monitored_ips /\ OnToNext)
              /\ (InCycle(t) /\ loops'[t] # loops[t])
                 => \/ (loops'[t].ip = loops[t].ip /\ loops'[t].ips = loops[t].ips)
                    \/ OnToNext]_vars

\* the failure is logged and the loop is on its way to the next cycle, while
\* the other target is still monitored
C18_Witness ==
    \E ip \in IPs :
        /\ LastLine(history) = <<"ERROR", "Error monitoring", ip>>
        /\ ~Has(monitored_ips, ip)
        /\ monitored_ips # <<>>
        /\ scanning_active
        /\ \E t \in Threads : loops[t].pc = "while"

\* C23: the events one detect_changes call returns name pairwise different
\* ports: no port has two events, of the same kind or of two kinds.
C23_OneEventPerPort ==
    diffed =>
        \A i, j \in 1..Len(diff_changes) :
            diff_changes[i].port = diff_changes[j].port => i = j

\* one port opened or closed and the other relabelled in the same call
C23_Witness ==
    /\ diffed
    /\ Len(diff_changes) = 2
    /\ Len(ChangedOf(diff_changes)) = 1
    /\ Len(OpenedOf(diff_changes)) + Len(ClosedOf(diff_changes)) = 1

\* C21: while an ip stays in monitored_ips, no step takes an event out of its
\* record's changes or moves one: a step leaves the list as it was, or it is
\* the extend of a cycle on that ip, which puts the events the cycle's
\* detect_changes returned, in the order it returned them, after the ones
\* that are there; and the events a cycle holds for the extend are what
\* detect_changes returned for last_scan and the cycle's scan.
C21_AppendOnly ==
    [][/\ \A ip \in IPs :
              (Has(monitored_ips, ip) /\ Has(monitored_ips', ip))
              => LET before == Get(monitored_ips, ip).changes
                     after == Get(monitored_ips', ip).changes
                 IN  \/ after = before
                     \/ \E t \in Threads :
                            /\ loops[t].pc = "extend"
                            /\ loops[t].ip = ip
                            /\ loops'[t].pc = "assign"
                            /\ after = before \o loops[t].changes
       /\ \A t \in Threads :
              (loops[t].pc = "previous" /\ loops'[t].pc = "extend")
              => loops'[t].changes
                   = detect_changes(Get(monitored_ips, loops[t].ip).last_scan,
                                    loops[t].current_scan, loops[t].ip, now)]_vars

\* a record with the events of two cycles, the later ones behind the earlier
C21_Witness ==
    \E ip \in IPs :
        /\ Has(monitored_ips, ip)
        /\ LET chs == Get(monitored_ips, ip).changes
           IN  /\ Len(chs) = 2
               /\ chs[1].timestamp = 2
               /\ chs[2].timestamp = 3

\* C24: no step of a monitoring loop adds a key to monitored_ips or takes one
\* away: the keys change only in start_monitoring and stop_monitoring; and a
\* cycle whose target is gone when it comes back from the scan writes nothing
\* and drops the scan it made.
C24_NoRecordFromCycle ==
    [][/\ loops' # loops => KeySet(monitored_ips') = KeySet(monitored_ips)
       /\ KeySet(monitored_ips') # KeySet(monitored_ips)
          => \E ip \in IPs : start_monitoring(ip) \/ stop_monitoring(ip)
       /\ \A t \in Threads :
              (/\ loops[t].pc \in {"previous", "extend", "assign"}
               /\ ~Has(monitored_ips, loops[t].ip)
               /\ loops'[t] # loops[t])
              => /\ monitored_ips' = monitored_ips
                 /\ loops'[t].current_scan = <<>>
                 /\ loops'[t].changes = <<>>]_vars

\* the only target was removed during its scan: the cycle failed on it and
\* no record is there
C24_Witness ==
    \E ip \in IPs :
        /\ LastLine(history) = <<"ERROR", "Error monitoring", ip>>
        /\ monitored_ips = <<>>
        /\ now >= 2
        /\ \E t \in Threads : loops[t].pc = "while"

\* the lines of a log that self.log(change["message"]) wrote
MessageLines(log) ==
    SelectSeq(log, LAMBDA line :
        line[2] \in {"NEW PORT OPENED on", "PORT CLOSED on", "SERVICE CHANGE on"})

\* C22: a post that fails, by its status or by an exception, ends neither the
\* cycle's work on the target nor a command: when a post for a change has
\* been made, the record holds the changes and the scan of the cycle; when
\* the cycle goes on to the next target every change has been logged, in
\* order, and, with telegram configured, posted, in order; no message is
\* posted twice; and no exception leaves send_telegram_message.
C22_NotifyNeverFatal ==
    /\ nt_pc # "raised"
    /\ \A j \in 1..Len(nt_log) : nt_log[j][2] # "Error monitoring"
    /\ \A j, k \in 1..Len(nt_posts) : nt_posts[j].text = nt_posts[k].text => j = k
    /\ nt_pc = "returned" => Len(nt_posts) <= 1
    /\ (nt_posts # <<>> /\ nt_changes # <<>>)
       => (nt_rec.changes = nt_changes /\ nt_rec.last_scan = nt_scan)
    /\ (nt_pc = "next" /\ nt_changes # <<>>)
       => /\ nt_rec.changes = nt_changes
          /\ nt_rec.last_scan = nt_scan
          /\ MessageLines(nt_log)
               = [j \in 1..Len(nt_changes) |-> <<"INFO">> \o nt_changes[j].message]
          /\ (nt_cfg.enabled /\ nt_cfg.chat_id /\ nt_cfg.token)
             => [j \in 1..Len(nt_posts) |-> nt_posts[j].text]
                  = [j \in 1..Len(nt_changes) |-> nt_changes[j].message]

\* two changes, the post for the first raised, the second was posted all the same
C22_Witness ==
    /\ nt_pc = "next"
    /\ Len(nt_changes) = 2
    /\ Len(nt_posts) = 2
    /\ nt_posts[1].outcome = "raises"
    /\ nt_posts[2].outcome = "200"
    /\ nt_rec.last_scan = nt_scan

\* the thread is not running: never started, or out of its while statement
Exited(t) == loops[t].pc \in {"none", "done"}

\* the thread is in a scan_ports call the model's clock has no time left for
ScanCutOff(t) == loops[t].pc = "scan" /\ now = MaxClock

\* C25: when from some point on scanning_active stays False (stop() was
\* called and start() is not called again), every monitoring_loop thread
\* whose scans return is out of its loop from some point on; and a thread
\* that reads scanning_active as False at its while statement starts no cycle.
C25_LoopExits ==
    /\ (<>[](~scanning_active))
       => <>[](\A t \in Threads : Exited(t) \/ ScanCutOff(t))
    /\ [][\A t \in Threads :
             (loops[t].pc = "while" /\ ~scanning_active /\ loops'[t] # loops[t])
             => loops'[t].pc = "done"]_vars

\* stop() has returned and the loop it stopped has gone through its last
\* cycle and out
C25_Witness ==
    /\ ~scanning_active
    /\ main.pc = "idle"
    /\ loops[1].pc = "done"
    /\ loops[2].pc = "none"
    /\ LastLine(history) = <<"INFO", "No changes detected for", "10.0.0.1">>

====
